---- MODULE Spec2Model ----
(***************************************************************************)
(* A model of extractAllRulesFromWikiText.py: the revision gate            *)
(* (fetch_latest_update_date, should_download), the link classifier and    *)
(* the scrape loop (is_internal_navigation_link, is_law_rule_link,         *)
(* extract_law_links_from_url), the sanitizer (extract_law_content) and    *)
(* the save loop (save_law_contents, convert_html_to_docx, main).          *)
(*                                                                         *)
(* Text is a sequence of one-character strings; the three characters that  *)
(* Python's text-mode file I/O treats specially are written "LF", "CR" and *)
(* "SP".  Hebrew words are transliterated (HEBREW_MONTHS keys, the legal   *)
(* stems), since the module is ASCII.                                      *)
(***************************************************************************)
EXTENDS Integers, Sequences, FiniteSets, TLC

VARIABLES
    linesep,      \* os.linesep of the platform the program runs on
    marker,       \* lastUpdated.txt: NoFile or the characters on disk
    resp,         \* what the history page answers to the current request
    gate,         \* the last should_download call: its result and history
    law_links,    \* the list handed to save_law_contents
    files,        \* extracted_rules/<key>.htm: NoFile or characters on disk
    docx,         \* the keys whose .docx was produced by the converter
    pc,           \* where main / save_law_contents stands
    idx,          \* 1-based position of the for loop of save_law_contents
    saved_count,  \* saved_count of save_law_contents
    events,       \* what the run did so far, in order
    results,      \* per entry processed so far: what was extracted and done
    page,         \* the <a href> elements of the listing page
    pos,          \* 1-based position of the for loop over all_links
    found,        \* law_links of extract_law_links_from_url
    classified,   \* the links is_law_rule_link was called on
    dom,          \* the fetched law page as a tree of elements
    out           \* what extract_law_content returned

vars == <<linesep, marker, resp, gate, law_links, files, docx, pc, idx,
          saved_count, events, results, page, pos, found, classified, dom, out>>

gateVars == <<marker, resp, gate>>
runVars == <<law_links, files, docx, pc, idx, saved_count, events, results>>
linkVars == <<page, pos, found, classified>>
domVars == <<dom, out>>

\* Sentinels, written as one-element texts so that they compare with texts.
NoFile == <<"NoFile">>
None == <<"None">>

\* ------------------------------------------------------------------ bounds

MaxCalls == 3
MaxPageLinks == 2
MaxEntries == 2
MaxNodes == 2

\* ------------------------------------------------------------- text and I/O

Whitespace == {"SP", "LF", "CR"}

RECURSIVE LStrip(_)
LStrip(s) ==
    IF s # <<>> /\ Head(s) \in Whitespace THEN LStrip(Tail(s)) ELSE s

RECURSIVE RStrip(_)
RStrip(s) ==
    IF s # <<>> /\ s[Len(s)] \in Whitespace
    THEN RStrip(SubSeq(s, 1, Len(s) - 1))
    ELSE s

\* str.strip()
Strip(s) == RStrip(LStrip(s))

\* f.write(text) on a file opened with open(path, "w", encoding="utf-8"):
\* newline=None, so every "\n" is written as os.linesep.
RECURSIVE TextWrite(_, _)
TextWrite(text, sep) ==
    IF text = <<>> THEN <<>>
    ELSE IF Head(text) = "LF" THEN sep \o TextWrite(Tail(text), sep)
    ELSE <<Head(text)>> \o TextWrite(Tail(text), sep)

\* f.read() on a file opened with open(path, "r", encoding="utf-8"):
\* universal newlines, so "\r\n" and a lone "\r" are both read as "\n".
RECURSIVE TextRead(_)
TextRead(bytes) ==
    IF bytes = <<>> THEN <<>>
    ELSE IF Head(bytes) = "CR"
    THEN IF Len(bytes) >= 2 /\ bytes[2] = "LF"
         THEN <<"LF">> \o TextRead(Tail(Tail(bytes)))
         ELSE <<"LF">> \o TextRead(Tail(bytes))
    ELSE <<Head(bytes)>> \o TextRead(Tail(bytes))

\* file_hash: SHA-256 of the UTF-8 bytes, taken as injective on the text.
file_hash(content) == <<"sha256", content>>

\* ------------------------------------------------------------- DateParser

HEBREW_MONTHS ==
    [m \in {"yanuar", "februar", "merts", "april", "mai", "yuni", "yuli",
            "ogust", "september", "oktober", "november", "detsember"} |->
        CASE m = "yanuar" -> 1
          [] m = "februar" -> 2
          [] m = "merts" -> 3
          [] m = "april" -> 4
          [] m = "mai" -> 5
          [] m = "yuni" -> 6
          [] m = "yuli" -> 7
          [] m = "ogust" -> 8
          [] m = "september" -> 9
          [] m = "oktober" -> 10
          [] m = "november" -> 11
          [] m = "detsember" -> 12]

DigitChars == <<"0", "1", "2", "3", "4", "5", "6", "7", "8", "9">>

RECURSIVE Dec(_)
\* format of an int with no width: f"{year}"
Dec(n) ==
    IF n < 10 THEN <<DigitChars[n + 1]>>
    ELSE Dec(n \div 10) \o <<DigitChars[(n % 10) + 1]>>

\* f"{n:02d}"
Pad2(n) == IF n < 10 THEN <<"0">> \o Dec(n) ELSE Dec(n)

\* The answers of the history page.  kind: the request failed, the page has
\* no mw-changeslist-date element, or it has one with a text; shape says
\* whether the text after the first comma matches (\d{1,2})\s+b([^\s]+)\s+(\d{4}),
\* and day, month, year are the three groups of the match.
Responses ==
    {[kind |-> k, comma |-> FALSE, shape |-> "other", day |-> 1,
      month |-> "merts", year |-> 2025] : k \in {"fetch_error", "no_elem"}}
    \cup
    [kind : {"text"}, comma : BOOLEAN, shape : {"dmy", "other"},
     day : {1, 28}, month : {"merts", "detsember", "adar"}, year : {2025}]

\* fetch_latest_update_date without the unknown-month check
fetch_latest_update_date_nomonthcheck(r) ==
    IF r.kind # "text" \/ r.shape # "dmy" THEN None
    ELSE LET month == IF r.month \in DOMAIN HEBREW_MONTHS
                      THEN HEBREW_MONTHS[r.month] ELSE 0
         IN  Pad2(r.day) \o <<"/">> \o Pad2(month) \o <<"/">> \o Dec(r.year)

fetch_latest_update_date(r) ==
    IF r.kind = "fetch_error" THEN None
    ELSE IF r.kind = "no_elem" THEN None
    ELSE IF r.shape # "dmy" THEN None
    ELSE IF r.month \notin DOMAIN HEBREW_MONTHS THEN None
    ELSE Pad2(r.day) \o <<"/">> \o Pad2(HEBREW_MONTHS[r.month]) \o <<"/">>
         \o Dec(r.year)

\* -------------------------------------------------------------- ChangeGate

\* should_download whose first run returns without creating the marker
should_download_nocreate(latest_date, file, sep) ==
    IF latest_date = None THEN [ret |-> TRUE, file |-> file, wrote |-> FALSE]
    ELSE IF file = NoFile THEN [ret |-> TRUE, file |-> file, wrote |-> FALSE]
    ELSE IF Strip(TextRead(file)) # latest_date
    THEN [ret |-> TRUE, file |-> TextWrite(latest_date, sep), wrote |-> TRUE]
    ELSE [ret |-> FALSE, file |-> file, wrote |-> FALSE]

\* should_download: the answer, lastUpdated.txt after the call, and whether
\* the call opened it for writing
should_download(latest_date, file, sep) ==
    IF latest_date = None THEN [ret |-> TRUE, file |-> file, wrote |-> FALSE]
    ELSE IF file = NoFile
    THEN [ret |-> TRUE, file |-> TextWrite(latest_date, sep), wrote |-> TRUE]
    ELSE IF Strip(TextRead(file)) # latest_date
    THEN [ret |-> TRUE, file |-> TextWrite(latest_date, sep), wrote |-> TRUE]
    ELSE [ret |-> FALSE, file |-> file, wrote |-> FALSE]

Date28March == <<"2", "8", "/", "0", "3", "/", "2", "0", "2", "5">>

\* lastUpdated.txt before the first call: absent, left by an earlier run,
\* or edited by hand (a trailing line break, another date format)
InitialMarkers ==
    {NoFile, Date28March, Date28March \o <<"LF">>,
     Date28March \o <<"CR", "LF">>,
     <<"2", "8", "/", "3", "/", "2", "0", "2", "5">>}

Platforms == {<<"LF">>, <<"CR", "LF">>}

IdleResponse ==
    [kind |-> "fetch_error", comma |-> FALSE, shape |-> "other", day |-> 1,
     month |-> "merts", year |-> 2025]

GateStart(m) ==
    [calls |-> 0, ret |-> FALSE, latest |-> None, prev |-> None,
     before |-> m, wrote |-> FALSE, init |-> m]

\* One call of should_download(history_url).
ShouldDownload ==
    /\ gate.calls < MaxCalls
    /\ \E r \in Responses :
          LET latest_date == fetch_latest_update_date(r)
              res == should_download(latest_date, marker, linesep)
          IN  /\ resp' = r
              /\ marker' = res.file
              /\ gate' = [calls |-> gate.calls + 1, ret |-> res.ret,
                          latest |-> latest_date, prev |-> gate.latest,
                          before |-> marker, wrote |-> res.wrote,
                          init |-> gate.init]
    /\ UNCHANGED <<linesep, runVars, linkVars, domVars>>

\* ---------------------------------------------------------- LinkClassifier

\* An href or a link text is a sequence of fragments; "pattern in href" and
\* re.search(pattern, text) for a literal pattern are both "some fragment is
\* the pattern".
Contains(text, fragment) == \E i \in 1..Len(text) : text[i] = fragment

\* law_patterns, transliterated (hok: law, pkudat: ordinance, takanot:
\* regulations, tsav: order, ...), in the order of the list
law_patterns ==
    <<"hok", "pkudat", "takanot", "tsav", "hoda", "klali", "nohal", "hora",
      "hanhayot", "takanon", "hahlat", "hanhay", "heter", "hakhraz",
      "akhraz", "davar", "norm", "hoda", "reshim", "drish", "kav", "kvia",
      "reshim", "prat">>

\* the three percent-encoded words of the second check
encoded_terms ==
    {"%D7%97%D7%95%D7%A7", "%D7%A4%D7%A7%D7%95%D7%93%D7%AA",
     "%D7%AA%D7%A7%D7%A0%D7%95%D7%AA"}

\* str.lower(): the fragments of the model have no upper-case letter other
\* than in the namespace prefixes and the percent escapes
Lower(text) ==
    [i \in 1..Len(text) |->
        CASE text[i] = "Special:" -> "special:"
          [] text[i] = "Help:" -> "help:"
          [] text[i] = "Template:" -> "template:"
          [] text[i] = "Category:" -> "category:"
          [] text[i] = "File:" -> "file:"
          [] text[i] = "MediaWiki:" -> "mediawiki:"
          [] text[i] = "%D7%97%D7%95%D7%A7" -> "%d7%97%d7%95%d7%a7"
          [] text[i] = "%D7%A4%D7%A7%D7%95%D7%93%D7%AA" ->
                 "%d7%a4%d7%a7%d7%95%d7%93%d7%aa"
          [] text[i] = "%D7%AA%D7%A7%D7%A0%D7%95%D7%AA" ->
                 "%d7%aa%d7%a7%d7%a0%d7%95%d7%aa"
          [] OTHER -> text[i]]

is_law_rule_link(href, link_text) ==
    IF href = <<>> THEN TRUE
    ELSE LET combined_text == Lower(href \o <<"SP">> \o link_text)
         IN  \/ \E k \in 1..Len(law_patterns) :
                    Contains(combined_text, law_patterns[k])
             \/ /\ Contains(href, "/wiki/")
                /\ \E term \in encoded_terms : Contains(href, term)

navigation_patterns ==
    <<"action=edit", "action=history", "oldid=", "#", "Special:", "Help:",
      "Template:", "Category:", "File:", "MediaWiki:", "/w/index.php">>

\* is_internal_navigation_link with the '#' pattern left out
is_internal_navigation_link_nofragment(href) ==
    \E k \in 1..Len(navigation_patterns) :
        navigation_patterns[k] # "#" /\ Contains(href, navigation_patterns[k])

is_internal_navigation_link(href) ==
    \E k \in 1..Len(navigation_patterns) :
        Contains(href, navigation_patterns[k])

\* ------------------------------------------------- LinkSource, scrape strategy

base_url == <<"https://he.wikisource.org">>

\* href.startswith('/')
StartsWithSlash(href) ==
    href # <<>> /\ Head(href) \in {"/", "/wiki/", "/w/index.php"}

\* href.startswith('http')
StartsWithHttp(href) == href # <<>> /\ Head(href) \in {"http://", "https://"}

\* urljoin(self.base_url, href) for an href that starts with one '/'
urljoin(base, href) == base \o href

\* The <a href=...> elements a listing page may hold: one per navigation
\* pattern, each with a legal stem in the href and in the text, and links
\* without any navigation pattern.
PageLinks ==
    {[href |-> <<"/wiki/", "hok", navigation_patterns[k], "x">>,
      text |-> <<"takanot">>] : k \in 1..Len(navigation_patterns)}
    \cup
    {[href |-> <<"/wiki/", "%D7%97%D7%95%D7%A7">>, text |-> <<"hok">>],
     [href |-> <<"/wiki/", "x">>, text |-> <<"tsav">>],
     [href |-> <<"/wiki/", "x">>, text |-> <<"x">>],
     [href |-> <<"SP", "/wiki/", "pkudat", "LF">>, text |-> <<>>],
     [href |-> <<"https://", "x", "hok">>, text |-> <<"x">>],
     [href |-> <<"x", "hok">>, text |-> <<"hok">>],
     [href |-> <<"SP">>, text |-> <<"hok">>],
     [href |-> <<>>, text |-> <<"hok">>]}

RECURSIVE SeqsUpTo(_, _)
\* the sequences over S of length at most n
SeqsUpTo(S, n) ==
    IF n = 0 THEN {<<>>}
    ELSE LET shorter == SeqsUpTo(S, n - 1)
         IN  shorter \cup {Append(q, x) : q \in shorter, x \in S}

LinksIdle ==
    /\ page = <<>>
    /\ pos = 0
    /\ found = <<>>
    /\ classified = {}

\* extract_law_links_from_url: the listing page could not be fetched
ScrapeFetchFailed ==
    /\ pos = 0
    /\ pos' = 1
    /\ page' = <<>>
    /\ UNCHANGED <<found, classified, linesep, gateVars, runVars, domVars>>

\* extract_law_links_from_url: the page is fetched and parsed
ScrapeFetched ==
    /\ pos = 0
    /\ pos' = 1
    /\ UNCHANGED <<page, found, classified, linesep, gateVars, runVars,
                   domVars>>

\* One iteration of "for link in all_links".
ScrapeLink ==
    /\ pos >= 1
    /\ pos <= Len(page)
    /\ LET href == Strip(page[pos].href)
           link_text == Strip(page[pos].text)
           full_url == IF StartsWithSlash(href) THEN urljoin(base_url, href)
                       ELSE href
       IN  IF href = <<>> THEN UNCHANGED <<found, classified>>
           ELSE IF is_internal_navigation_link(href)
           THEN UNCHANGED <<found, classified>>
           ELSE IF ~StartsWithSlash(href) /\ ~StartsWithHttp(href)
           THEN UNCHANGED <<found, classified>>
           ELSE /\ classified' = classified \cup {pos}
                /\ found' =
                     IF is_law_rule_link(href, link_text)
                     THEN Append(found, [url |-> full_url, text |-> link_text,
                                         original_href |-> href])
                     ELSE found
    /\ pos' = pos + 1
    /\ UNCHANGED <<page, linesep, gateVars, runVars, domVars>>

NextLinks == ScrapeFetchFailed \/ ScrapeFetched \/ ScrapeLink

\* -------------------------------------------------------- ContentSanitizer

\* with_lua, the module-level switch of the law-number link demotion
with_lua == TRUE

Tags == {"div", "span", "img", "a"}

ClassLists ==
    {{}, {"mw-editsection"}, {"printonly"}, {"printfooter"}, {"graytext"},
     {"law-number"}}

\* The elements below div#mw-content-text, in document order: nodes[i].parent
\* is the index of the parent element, 0 for main_content itself.
Trees(n) ==
    {q \in [1..n -> [tag : Tags, classes : ClassLists, parent : 0..(n - 1)]] :
        \A k \in 1..n : q[k].parent < k}

\* What a law page request may produce.
Pages ==
    {[status |-> st, nodes |-> <<>>] : st \in {"fetch_failed", "no_main"}}
    \cup
    {[status |-> "ok", nodes |-> q] :
        q \in UNION {Trees(n) : n \in 0..MaxNodes}}

RECURSIVE IsUnder(_, _, _)
\* element i is element j or one of its descendants
IsUnder(nodes, i, j) ==
    \/ i = j
    \/ nodes[i].parent # 0 /\ IsUnder(nodes, nodes[i].parent, j)

\* main_content.find_all(tag, class_=cls): the descendants still in the tree
\* with that tag and, when cls is given, that class among their classes
find_all(tree, tag, cls) ==
    {i \in tree.alive :
        /\ tree.nodes[i].tag = tag
        /\ cls = "" \/ cls \in tree.nodes[i].classes}

\* "for e in found: e.decompose()"
decompose_all(tree, S) ==
    [tree EXCEPT !.alive =
        {i \in tree.alive : ~\E j \in S : IsUnder(tree.nodes, i, j)}]

\* the with_lua block: each <a> that is a direct child of a div.law-number is
\* replaced by a new span with the a's text, its classes plus law-number-link
replace_law_number_links(tree) ==
    LET law_divs == find_all(tree, "div", "law-number")
        a_tags == {i \in tree.alive :
                      /\ tree.nodes[i].tag = "a"
                      /\ tree.nodes[i].parent \in law_divs}
    IN  [nodes |->
            [i \in DOMAIN tree.nodes |->
                IF i \in a_tags
                THEN [tag |-> "span",
                      classes |-> tree.nodes[i].classes \cup {"law-number-link"},
                      parent |-> tree.nodes[i].parent]
                ELSE tree.nodes[i]],
         alive |->
            {i \in tree.alive :
                ~\E j \in a_tags : i # j /\ IsUnder(tree.nodes, i, j)}]

\* extract_law_content from the parsed page to main_content as it is printed
\* into html_template
sanitize(nodes) ==
    LET t0 == [nodes |-> nodes, alive |-> DOMAIN nodes]
        t1 == decompose_all(t0, find_all(t0, "img", ""))
        t2 == decompose_all(t1, find_all(t1, "span", "mw-editsection"))
        t3 == decompose_all(t2, find_all(t2, "span", "printonly"))
        t4 == decompose_all(t3, find_all(t3, "div", "printfooter"))
        t5 == decompose_all(t4, find_all(t4, "div", "graytext"))
    IN  IF with_lua THEN replace_law_number_links(t5) ELSE t5

DomIdle ==
    /\ dom = [status |-> "fetch_failed", nodes |-> <<>>]
    /\ out = [kind |-> "pending", nodes |-> <<>>, alive |-> {}]

\* extract_law_content returns None: no response, or no div#mw-content-text
ExtractNothing ==
    /\ out.kind = "pending"
    /\ dom.status # "ok"
    /\ out' = [kind |-> "None", nodes |-> <<>>, alive |-> {}]
    /\ UNCHANGED <<dom, linesep, gateVars, runVars, linkVars>>

\* extract_law_content returns the html document
ExtractLawContent ==
    /\ out.kind = "pending"
    /\ dom.status = "ok"
    /\ LET t == sanitize(dom.nodes)
       IN  out' = [kind |-> "html", nodes |-> t.nodes, alive |-> t.alive]
    /\ UNCHANGED <<dom, linesep, gateVars, runVars, linkVars>>

NextDom == ExtractNothing \/ ExtractLawContent

\* ------------------------------------------------- LinkSource, tabular strategy

\* re.sub(r'\s+', '_', title): every run of whitespace becomes one '_'
RECURSIVE Underscore(_)
Underscore(title) ==
    IF title = <<>> THEN <<>>
    ELSE IF Head(title) \in Whitespace
    THEN <<"_">> \o Underscore(LStrip(title))
    ELSE <<Head(title)>> \o Underscore(Tail(title))

\* The rows of existing_rules.xlsx: <<first column, second column>>.
Rows == {<<"1", <<"hok", "SP", "SP", "x", "SP">>>>, <<"2", <<"tsav">>>>}

\* extract_law_links on the rows read from the spreadsheet
extract_law_links(rows) ==
    [i \in 1..Len(rows) |->
        [c |-> rows[i][1],
         url |-> <<"https://he.wikisource.org", "/wiki/">>
                 \o Underscore(Strip(rows[i][2]))]]

\* What extract_law_links_from_url returns for the pages of the model.
ScrapedEntries ==
    {[url |-> <<"https://he.wikisource.org", "/wiki/", "%D7%97%D7%95%D7%A7">>,
      text |-> <<"hok">>,
      original_href |-> <<"/wiki/", "%D7%97%D7%95%D7%A7">>],
     [url |-> <<"https://", "x", "hok", "/">>, text |-> <<"x">>,
      original_href |-> <<"https://", "x", "hok", "/">>]}

\* ------------------------------------------------------------ ContentCache

\* str(main_content) of the pages a fetch may return
Bodies == {<<"a">>, <<"b", "CR", "LF">>}

\* html_template: the document shell around str(main_content)
html_template(main_content) ==
    <<"<!DOCTYPE html>", "LF", "<body>", "LF", "SP">> \o main_content
    \o <<"LF", "</body>", "LF", "</html>">>

\* the names the .htm files of the model can have
Keys == {"1", "2", "hok"}

\* urllib.parse.unquote on a path segment
unquote(segment) ==
    CASE segment = "%D7%97%D7%95%D7%A7" -> "hok"
      [] segment = "%D7%A4%D7%A7%D7%95%D7%93%D7%AA" -> "pkudat"
      [] segment = "%D7%AA%D7%A7%D7%A0%D7%95%D7%AA" -> "takanot"
      [] OTHER -> segment

\* filename: the decoded last segment of the url's path, the one before it
\* when the path ends with '/'
filename(url) ==
    unquote(IF url[Len(url)] = "/" THEN url[Len(url) - 1] ELSE url[Len(url)])

\* max_links of save_law_contents as main calls it
default_max_links == -1

\* law_links[:max_links] after "if max_links <= 1: max_links = len(law_links)"
links_to_save(links, max_links) ==
    IF max_links <= 1 THEN links
    ELSE SubSeq(links, 1, IF max_links < Len(links) THEN max_links
                          ELSE Len(links))

\* the except clause outside the for loop: the first exception ends the loop
after_exception_abort(i, n) == n + 1

\* "except Exception" inside the for loop: the loop goes on with the next entry
after_exception(i, n) == i + 1

\* ------------------------------------------- save_law_contents and main

ToSave == links_to_save(law_links, default_max_links)

RunIdle ==
    /\ law_links = <<>>
    /\ files = [k \in Keys |-> NoFile]
    /\ docx = {}
    /\ pc = "idle"
    /\ idx = 0
    /\ saved_count = 0
    /\ events = <<>>
    /\ results = <<>>

\* One entry's record in results.
Result(content, outcome) ==
    [content |-> content, outcome |-> outcome, files_before |-> files]

\* main: the should_download call is commented out, the links are read from
\* the spreadsheet and handed to save_law_contents
MainTabular ==
    /\ pc = "start"
    /\ \E rows \in SeqsUpTo(Rows, MaxEntries) :
          law_links' = extract_law_links(rows)
    /\ pc' = "loop"
    /\ idx' = 1
    /\ saved_count' = 0
    /\ UNCHANGED <<files, docx, events, results, linesep, gateVars, linkVars,
                   domVars>>

\* save_law_contents called on what extract_law_links_from_url returned
SaveScraped ==
    /\ pc = "start"
    /\ law_links' \in SeqsUpTo(ScrapedEntries, MaxEntries) \ {<<>>}
    /\ pc' = "loop"
    /\ idx' = 1
    /\ saved_count' = 0
    /\ UNCHANGED <<files, docx, events, results, linesep, gateVars, linkVars,
                   domVars>>

\* extract_law_content returned None: "Could not extract content", continue
EntryNoContent ==
    /\ pc = "loop"
    /\ idx <= Len(ToSave)
    /\ \E why \in {"fetch_failed", "no_content"} :
          results' = Append(results, Result(None, why))
    /\ events' = Append(events, <<"fetch", idx>>)
    /\ idx' = idx + 1
    /\ UNCHANGED <<law_links, files, docx, pc, saved_count, linesep, gateVars,
                   linkVars, domVars>>

\* link_data['c'] raises KeyError, caught by "except Exception"
EntryKeyError ==
    /\ pc = "loop"
    /\ idx <= Len(ToSave)
    /\ "c" \notin DOMAIN ToSave[idx]
    /\ \E body \in Bodies :
          results' = Append(results, Result(html_template(body), "key_error"))
    /\ events' = Append(events, <<"fetch", idx>>)
    /\ idx' = after_exception(idx, Len(ToSave))
    /\ UNCHANGED <<law_links, files, docx, pc, saved_count, linesep, gateVars,
                   linkVars, domVars>>

\* file_hash2 of the .htm file that is on disk, "" when there is none
file_hash2(file) == IF file = NoFile THEN <<>> ELSE file_hash(TextRead(file))

\* file_hash1 == file_hash2: "File content unchanged", continue
EntryUnchanged ==
    /\ pc = "loop"
    /\ idx <= Len(ToSave)
    /\ "c" \in DOMAIN ToSave[idx]
    /\ \E body \in Bodies :
          LET content == html_template(body)
          IN  /\ file_hash(content) = file_hash2(files[ToSave[idx].c])
              /\ results' = Append(results, Result(content, "unchanged"))
    /\ events' = Append(events, <<"fetch", idx>>)
    /\ idx' = idx + 1
    /\ UNCHANGED <<law_links, files, docx, pc, saved_count, linesep, gateVars,
                   linkVars, domVars>>

\* the hashes differ and open(file_path, 'w') or f.write raises: the file is
\* as it was, or truncated; caught by "except Exception"
EntryWriteFailed ==
    /\ pc = "loop"
    /\ idx <= Len(ToSave)
    /\ "c" \in DOMAIN ToSave[idx]
    /\ \E body \in Bodies, truncated \in BOOLEAN :
          LET content == html_template(body)
              key == ToSave[idx].c
          IN  /\ file_hash(content) # file_hash2(files[key])
              /\ results' = Append(results, Result(content, "io_error"))
              /\ files' = IF truncated THEN [files EXCEPT ![key] = <<>>]
                          ELSE files
    /\ events' = Append(events, <<"fetch", idx>>)
    /\ idx' = after_exception(idx, Len(ToSave))
    /\ UNCHANGED <<law_links, docx, pc, saved_count, linesep, gateVars,
                   linkVars, domVars>>

\* the hashes differ: the .htm file is written, then convert_html_to_docx
EntryWritten ==
    /\ pc = "loop"
    /\ idx <= Len(ToSave)
    /\ "c" \in DOMAIN ToSave[idx]
    /\ \E body \in Bodies :
          LET content == html_template(body)
              key == ToSave[idx].c
          IN  /\ file_hash(content) # file_hash2(files[key])
              /\ results' = Append(results, Result(content, "written"))
              /\ files' = [files EXCEPT ![key] = TextWrite(content, linesep)]
    /\ events' = events \o <<<<"fetch", idx>>, <<"write", idx>>>>
    /\ pc' = "convert"
    /\ UNCHANGED <<law_links, docx, idx, saved_count, linesep, gateVars,
                   linkVars, domVars>>

\* convert_html_to_docx returns: True when pandoc ran and exited 0, False
\* when pandoc is missing or exits non-zero; then saved_count += 1 and
\* time.sleep(0.5)
ConvertReturns ==
    /\ pc = "convert"
    /\ \E how \in {"ok", "missing", "nonzero"} :
          /\ docx' = IF how = "ok" THEN docx \cup {ToSave[idx].c} ELSE docx
          /\ events' = events \o
                (IF how = "missing" THEN <<>> ELSE <<<<"convert", idx>>>>)
                \o <<<<"sleep", idx>>>>
    /\ saved_count' = saved_count + 1
    /\ idx' = idx + 1
    /\ pc' = "loop"
    /\ UNCHANGED <<law_links, files, results, linesep, gateVars, linkVars,
                   domVars>>

\* subprocess.run(pandoc_args, check=True, cwd=temp_dir) has no timeout: a
\* pandoc that does not exit leaves the call waiting
ConvertHangs ==
    /\ pc = "convert"
    /\ events' = Append(events, <<"convert", idx>>)
    /\ pc' = "waiting"
    /\ UNCHANGED <<law_links, files, docx, idx, saved_count, results, linesep,
                   gateVars, linkVars, domVars>>

\* the for loop is over: save_law_contents returns saved_count and main
\* prints "Successfully saved content of {saved_count} law links"
LoopExit ==
    /\ pc = "loop"
    /\ idx > Len(ToSave)
    /\ pc' = "done"
    /\ UNCHANGED <<law_links, files, docx, idx, saved_count, events, results,
                   linesep, gateVars, linkVars, domVars>>

NextRun ==
    \/ MainTabular
    \/ SaveScraped
    \/ EntryNoContent
    \/ EntryKeyError
    \/ EntryUnchanged
    \/ EntryWriteFailed
    \/ EntryWritten
    \/ ConvertReturns
    \/ ConvertHangs
    \/ LoopExit

\* ---------------------------------------------------------- specifications

GateIdle ==
    /\ marker = NoFile
    /\ resp = IdleResponse
    /\ gate = GateStart(NoFile)

\* Repeated calls of should_download.
InitGate ==
    /\ linesep \in Platforms
    /\ marker \in InitialMarkers
    /\ resp = IdleResponse
    /\ gate = GateStart(marker)
    /\ RunIdle
    /\ LinksIdle
    /\ DomIdle

NextGate == ShouldDownload

SpecGate == InitGate /\ [][NextGate]_vars

\* One call of extract_law_links_from_url on a listing page.
InitLinks ==
    /\ linesep = <<"LF">>
    /\ GateIdle
    /\ RunIdle
    /\ page \in SeqsUpTo(PageLinks, MaxPageLinks)
    /\ pos = 0
    /\ found = <<>>
    /\ classified = {}
    /\ DomIdle

SpecLinks == InitLinks /\ [][NextLinks]_vars

\* One call of extract_law_content on a law page.
InitDom ==
    /\ linesep = <<"LF">>
    /\ GateIdle
    /\ RunIdle
    /\ LinksIdle
    /\ dom \in Pages
    /\ out = [kind |-> "pending", nodes |-> <<>>, alive |-> {}]

SpecDom == InitDom /\ [][NextDom]_vars

\* One run of the program: the history page answers resp, lastUpdated.txt and
\* the .htm file of key "1" are absent or left by an earlier run.
InitRun ==
    /\ linesep \in Platforms
    /\ marker \in {NoFile, Date28March}
    /\ resp = [kind |-> "text", comma |-> TRUE, shape |-> "dmy", day |-> 28,
               month |-> "merts", year |-> 2025]
    /\ gate = GateStart(marker)
    /\ law_links = <<>>
    /\ files \in {[k \in Keys |-> IF k = "1" THEN f ELSE NoFile] :
                     f \in {NoFile, TextWrite(html_template(<<"a">>), linesep)}}
    /\ docx = {}
    /\ pc = "start"
    /\ idx = 0
    /\ saved_count = 0
    /\ events = <<>>
    /\ results = <<>>
    /\ LinksIdle
    /\ DomIdle

\* The program is sequential: whenever it can take a step it takes one.
SpecRun == InitRun /\ [][NextRun]_vars /\ WF_vars(NextRun)

\* ------------------------------------------------------------------ claims

\* C1: writeIfChanged is idempotent: when two successive entries have the
\* same output key and the same sanitized HTML and the first was handled
\* (written or found unchanged), the second is Unchanged: no write and no
\* conversion.  (A write that fails with an I/O error is left aside.)
C1_WriteIfChangedIdempotent ==
    \A i \in 2..Len(results) :
        ( /\ "c" \in DOMAIN ToSave[i - 1]
          /\ "c" \in DOMAIN ToSave[i]
          /\ ToSave[i - 1].c = ToSave[i].c
          /\ results[i].content = results[i - 1].content
          /\ results[i - 1].outcome \in {"written", "unchanged"}
          /\ results[i].outcome # "io_error" )
        => results[i].outcome = "unchanged"

\* C2: the gate is idempotent while the remote date stays the same: a call
\* that finds no marker and parses a date d answers true and leaves the marker
\* holding exactly d, and a call that parses the same date as the call before
\* it answers false and leaves the marker as it was.
C2_GateIdempotent ==
    /\ (gate.calls >= 1 /\ gate.before = NoFile /\ gate.latest # None)
       => (gate.ret = TRUE /\ marker # NoFile
           /\ TextRead(marker) = gate.latest)
    /\ (gate.calls >= 2 /\ gate.latest # None /\ gate.prev = gate.latest)
       => (gate.ret = FALSE /\ marker = gate.before /\ ~gate.wrote)

\* C2 witness: marker absent at first, then three calls with the same parsed
\* date, the last one answering false.
C2_Witness ==
    /\ gate.init = NoFile
    /\ gate.calls = MaxCalls
    /\ gate.latest = Date28March
    /\ gate.prev = gate.latest
    /\ gate.ret = FALSE
    /\ TextRead(marker) = Date28March

\* the remote date cannot be obtained or parsed
DateUnavailable(r) ==
    \/ r.kind = "fetch_error"
    \/ r.kind = "no_elem"
    \/ r.shape # "dmy"
    \/ r.month \notin {"yanuar", "februar", "merts", "april", "mai", "yuni",
                       "yuli", "ogust", "september", "oktober", "november",
                       "detsember"}

\* C3: the gate fails open: when the remote date cannot be obtained or parsed,
\* should_download answers true and does not write the marker, whatever the
\* marker was.
C3_GateFailsOpen ==
    (gate.calls >= 1 /\ DateUnavailable(resp))
    => (gate.ret = TRUE /\ ~gate.wrote /\ marker = gate.before)

\* C3 witness: a call whose date text has an unknown month name, made while
\* the marker holds a date.
C3_Witness ==
    /\ gate.calls >= 1
    /\ resp.kind = "text"
    /\ resp.shape = "dmy"
    /\ resp.month = "adar"
    /\ gate.before = Date28March
    /\ gate.ret = TRUE
    /\ marker = Date28March

\* C4: in a run where the remote revision date equals the stored marker (the
\* gate's answer is false) no page is fetched, no HTML is written and no
\* conversion is invoked.
C4_GateSkipsRedundantRun ==
    ~should_download(fetch_latest_update_date(resp), marker, linesep).ret
    => (events = <<>> /\ docx = {})

ClaimedNavigationPatterns ==
    {"action=edit", "action=history", "oldid=", "#", "Special:", "Help:",
     "Template:", "Category:", "File:", "MediaWiki:", "/w/index.php"}

MatchesNavigation(href) ==
    \E p \in ClaimedNavigationPatterns : Contains(href, p)

\* C5: a hyperlink whose href matches an internal-navigation pattern is
\* dropped before classification and never appears in the returned list, even
\* when its href or text holds a legal stem.
C5_NavigationExcluded ==
    \A i \in 1..Len(page) :
        (i < pos /\ MatchesNavigation(page[i].href))
        => /\ i \notin classified
           /\ \A k \in 1..Len(found) :
                  found[k].original_href # Strip(page[i].href)

\* C5 witness: the loop is over a page with a navigation link that the
\* classifier would accept and with a link that was kept.
C5_Witness ==
    /\ pos > Len(page)
    /\ Len(found) >= 1
    /\ \E i \in 1..Len(page) :
          /\ MatchesNavigation(page[i].href)
          /\ is_law_rule_link(Strip(page[i].href), Strip(page[i].text))

\* the output key of an entry: the row label, or the decoded last path
\* segment of the url for an entry without one
OutputKey(entry) ==
    IF "c" \in DOMAIN entry THEN entry.c ELSE filename(entry.url)

\* C6: for an entry of either strategy whose page was fetched and sanitized
\* and whose content differs from the artifact cached under its output key,
\* the HTML file named by that key is written.  (A write that fails with an
\* I/O error is left aside.)
C6_ArtifactWrittenUnderOutputKey ==
    \A i \in 1..Len(results) :
        LET r == results[i]
            key == OutputKey(ToSave[i])
        IN  ( /\ r.content # None
              /\ r.outcome # "io_error"
              /\ file_hash(r.content) # file_hash2(r.files_before[key]) )
            => /\ r.outcome = "written"
               /\ i = Len(results) => files[key] = TextWrite(r.content, linesep)

MarkerClasses == {"mw-editsection", "printonly", "printfooter", "graytext"}

\* C7: the document the sanitizer returns has no img element and no element
\* carrying one of the marker classes, whatever its tag and depth.
C7_NoImageNoMarkerClass ==
    out.kind = "html"
    => \A i \in out.alive :
           /\ out.nodes[i].tag # "img"
           /\ out.nodes[i].classes \cap MarkerClasses = {}

\* C8: the run always completes: save_law_contents returns and main prints
\* the saved count, whatever each fetch and each conversion does.
C8_RunCompletes == <>(pc = "done")

\* C9: between every two successive page fetches of a run the pacing delay
\* elapses, whatever happened to the earlier entry.
C9_DelayBetweenFetches ==
    \A i, j \in 1..Len(events) :
        (i < j /\ events[i][1] = "fetch" /\ events[j][1] = "fetch")
        => \E k \in (i + 1)..(j - 1) : events[k][1] = "sleep"

IsFetch(e) == e[1] = "fetch"

Fetches == SelectSeq(events, IsFetch)

Failures == {"fetch_failed", "no_content", "key_error", "io_error"}

\* C10: with the default max_links every entry is fetched exactly once, in
\* list order, and a failure on one entry does not keep the later entries from
\* being attempted: the fetches so far are those of entries 1, 2, ... in
\* order, all entries before the loop position have been fetched, and when the
\* call returns every entry of the list has been.
C10_EachEntryOnceInOrder ==
    /\ \A k \in 1..Len(Fetches) : Fetches[k][2] = k
    /\ pc = "loop" => Len(Fetches) = idx - 1
    /\ pc \in {"convert", "waiting"} => Len(Fetches) = idx
    /\ pc = "done" => Len(Fetches) = Len(law_links)

\* C10 witness: the call returned, the first entry failed and a later entry
\* was fetched after it.
C10_Witness ==
    /\ pc = "done"
    /\ Len(law_links) >= 2
    /\ results[1].outcome \in Failures
    /\ Len(Fetches) = Len(law_links)

====
